---- MODULE Spec2Model ----
(***************************************************************************)
(* Session lifecycle of tidal_api/session_manager.py: SessionManager, its  *)
(* manager-wide threading.Lock, the pending-login table, and the request   *)
(* threads that call its entry points.                                     *)
(*                                                                         *)
(* A thread's position is the source line it is at.  Every entry point     *)
(* takes self._lock (lines 164, 214, 291, 452) and, holding it, calls      *)
(* _is_session_valid, which takes self._lock again (line 121).             *)
(* threading.Lock is not reentrant: acquire() blocks until the lock is     *)
(* unlocked, whoever holds it.                                             *)
(***************************************************************************)
EXTENDS Naturals, FiniteSets

\* ---- bounds ----
NumThreads == 2
MaxTime == 2
MaxExpiresIn == 1

NumInstances == 2
NumBundles == 2

Threads == 1..NumThreads
NoThread == 0

\* ---- session ids ----
Ids == {"s1", "s2"}
NoneId == "None"            \* the argument session_id=None
DefaultId == "default"      \* session_manager.py:161, :453
\* session_manager.py:211: uuid.uuid4(), a fresh id for each call
UuidNames == <<"uuid4-a", "uuid4-b", "uuid4-c", "uuid4-d">>
GeneratedId(t) == UuidNames[t]
AllIds == Ids \cup {DefaultId} \cup {GeneratedId(t) : t \in Threads}

NoUrl == "None"             \* callback_url=None
Urls == {"https://example.com/done"}

\* ---- table entries ----
NoEntry == [future |-> "absent", expires_in |-> 0, created_at |-> 0]
FutureStates == {"running", "valid", "invalid", "raised"}
NoSession == "absent"
NoResult == [status |-> "none", authenticated |-> FALSE, message |-> "",
             session_id |-> "none", auth_url |-> "", expires_in |-> 0,
             user |-> "none", callback_url |-> "None"]

VARIABLES
    lock,            \* self._lock: the thread holding it, or NoThread
    pending_logins,  \* self._pending_logins
    sessions,        \* self._sessions (the cache)
    callbacks,       \* self._callbacks
    files,           \* the session files of the sessions directory
    oauth_up,        \* whether start_oauth_login would succeed
    now,             \* time.time()
    pc, op, sid, cb, \* per thread: line, entry point, session id, callback_url
    result           \* per thread: what its call returned

mvars == <<lock, pending_logins, sessions, callbacks, files, oauth_up, now,
           pc, op, sid, cb, result>>

\* ---- SessionStorage (tidal_api/session_storage.py) ----
Instances == 1..NumInstances
Bundles == 1..NumBundles        \* the credential bundles that get saved
NoBundle == 0                   \* None
DecryptionError == NumBundles + 1
NoKey == "None"
ClosedKey == "closed"           \* the instance is not constructed yet
ArgKeys == {"k1"}               \* encryption_key arguments
GeneratedKey(i) == <<"k2", "k3", "k4", "k5">>[i]   \* Fernet.generate_key()
NoInstance == 0

NoCall == [op |-> "none", inst |-> NoInstance, id |-> NoneId,
           bundle |-> NoBundle]
NoReturn == [bundle |-> NoBundle, ids |-> {}, exists |-> FALSE]
NoRecord == [key |-> NoKey, plain |-> NoBundle]   \* no record under the key
NoIndex == [key |-> NoKey, plain |-> {}]          \* no index record
NoSave == [inst |-> NoInstance, bundle |-> NoBundle]

VARIABLES
    env_key,        \* os.getenv("TIDAL_STORAGE_ENCRYPTION_KEY")
    inst_key,       \* per instance: the key of its Fernet
    store_lock,     \* per instance: self._lock
    store_sessions, \* the directory: the record stored under "session:<id>"
    store_index,    \* the directory: the record stored under INDEX_KEY
    spc,            \* per thread: its line in session_storage.py
    call,           \* per thread: the sync wrapper it is in
    loaded,         \* per thread: session_ids, the index it loaded
    sret,           \* the value the last sync wrapper returned
    last_save       \* per id: the save or delete that returned last
                    \* (bundle is NoBundle for a delete)

svars == <<env_key, inst_key, store_lock, store_sessions, store_index,
           spc, call, loaded, sret, last_save>>

vars == <<mvars, svars>>

\* The store as any constructed SessionStorage finds it on an empty directory.
StoreInit(e) ==
    /\ env_key = e
    /\ inst_key = [i \in Instances |-> ClosedKey]
    /\ store_lock = [i \in Instances |-> NoThread]
    /\ store_sessions = [s \in Ids |-> NoRecord]
    /\ store_index = NoIndex
    /\ spc = [t \in Threads |-> "idle"]
    /\ call = [t \in Threads |-> NoCall]
    /\ loaded = [t \in Threads |-> {}]
    /\ sret = NoReturn
    /\ last_save = [s \in Ids |-> NoSave]

\* What the sessions directory holds for an id when the manager is
\* constructed: no file, a file whose session validates with TIDAL, a file
\* whose session no longer validates (login_session_file_auto returns
\* False), or a file whose reading raises (the storage is unavailable).
FileStates == {"absent", "valid", "invalid", "unreadable"}

\* Lines at which a thread executes "with self._lock:".
OuterLockLines == {"L164", "L214", "L291", "L452"}
InnerLockLine == "L121"
LockLines == OuterLockLines \cup {InnerLockLine}

\* The line reached once the "with self._lock:" at the given line is entered.
AfterLock(line) ==
    IF line \in OuterLockLines THEN InnerLockLine  \* :165, :215, :292, :453
    ELSE "L122"                                    \* body of _is_session_valid

\* __init__ with a call of _load_sessions_from_disk (lines 77-107): the
\* files that validate are in the cache from the start.
Init_loads_sessions ==
    /\ lock = NoThread
    /\ pending_logins = [s \in AllIds |-> NoEntry]
    /\ \E saved \in SUBSET Ids :
           /\ files = [s \in AllIds |->
                          IF s \in saved THEN "valid" ELSE "absent"]
           /\ sessions = [s \in AllIds |->
                             IF s \in saved THEN "loaded" ELSE NoSession]
    /\ callbacks = [s \in AllIds |-> NoUrl]
    /\ oauth_up \in BOOLEAN
    /\ now = 0
    /\ pc = [t \in Threads |-> "idle"]
    /\ op = [t \in Threads |-> "none"]
    /\ sid = [t \in Threads |-> NoneId]
    /\ cb = [t \in Threads |-> NoUrl]
    /\ result = [t \in Threads |-> NoResult]
    /\ StoreInit(NoKey)

Init ==
    /\ lock = NoThread
    /\ pending_logins = [s \in AllIds |-> NoEntry]
    /\ sessions = [s \in AllIds |-> NoSession]
    /\ callbacks = [s \in AllIds |-> NoUrl]
    /\ \E saved \in SUBSET Ids :
           files = [s \in AllIds |-> IF s \in saved THEN "valid" ELSE "absent"]
    /\ oauth_up \in BOOLEAN
    /\ now = 0
    /\ pc = [t \in Threads |-> "idle"]
    /\ op = [t \in Threads |-> "none"]
    /\ sid = [t \in Threads |-> NoneId]
    /\ cb = [t \in Threads |-> NoUrl]
    /\ result = [t \in Threads |-> NoResult]
    /\ StoreInit(NoKey)

\* The manager constructed over a sessions directory in which the file of
\* one id does not validate or cannot be read.
FailingFilesInit ==
    /\ lock = NoThread
    /\ pending_logins = [s \in AllIds |-> NoEntry]
    /\ sessions = [s \in AllIds |-> NoSession]
    /\ callbacks = [s \in AllIds |-> NoUrl]
    /\ \E bad \in Ids, f \in {"invalid", "unreadable"} :
           files = [s \in AllIds |-> IF s = bad THEN f ELSE "absent"]
    /\ oauth_up = TRUE
    /\ now = 0
    /\ pc = [t \in Threads |-> "idle"]
    /\ op = [t \in Threads |-> "none"]
    /\ sid = [t \in Threads |-> NoneId]
    /\ cb = [t \in Threads |-> NoUrl]
    /\ result = [t \in Threads |-> NoResult]
    /\ StoreInit(NoKey)

\* An entry point that first drops every pending login whose code has
\* expired, whichever session id it belongs to.
Enter_sweeps(t, name, s, c, line) ==
    /\ pc[t] = "idle"
    /\ result[t] = NoResult
    /\ pc' = [pc EXCEPT ![t] = line]
    /\ op' = [op EXCEPT ![t] = name]
    /\ sid' = [sid EXCEPT ![t] = s]
    /\ cb' = [cb EXCEPT ![t] = c]
    /\ pending_logins' = [b \in AllIds |->
           IF /\ pending_logins[b] # NoEntry
              /\ now > pending_logins[b].created_at
                           + pending_logins[b].expires_in
           THEN NoEntry ELSE pending_logins[b]]
    /\ UNCHANGED <<lock, sessions, callbacks, files, oauth_up, now, result>>
    /\ UNCHANGED svars

\* A thread enters an entry point and reaches its first "with self._lock:".
Enter(t, name, s, c, line) ==
    /\ pc[t] = "idle"
    /\ result[t] = NoResult
    /\ pc' = [pc EXCEPT ![t] = line]
    /\ op' = [op EXCEPT ![t] = name]
    /\ sid' = [sid EXCEPT ![t] = s]
    /\ cb' = [cb EXCEPT ![t] = c]
    /\ UNCHANGED <<lock, pending_logins, sessions, callbacks, files,
                   oauth_up, now, result>>
    /\ UNCHANGED svars

authenticate(t, s, c) ==
    Enter(t, "authenticate", IF s = NoneId THEN GeneratedId(t) ELSE s, c, "L214")

check_login_status(t, s) ==
    Enter(t, "check_login_status", s, NoUrl, "L291")

check_authentication_status(t, s) ==
    IF s # NoneId
    THEN Enter(t, "check_login_status", s, NoUrl, "L291")
    ELSE Enter(t, "check_authentication_status", DefaultId, NoUrl, "L452")

get_authenticated_session(t, s) ==
    Enter(t, "get_authenticated_session",
          IF s = NoneId THEN DefaultId ELSE s, NoUrl, "L164")

\* threading.Lock.acquire(): blocks while the lock is held, by anyone.
acquire(t) ==
    /\ pc[t] \in LockLines
    /\ lock = NoThread
    /\ lock' = t
    /\ pc' = [pc EXCEPT ![t] = AfterLock(pc[t])]
    /\ UNCHANGED <<pending_logins, sessions, callbacks, files, oauth_up, now,
                   op, sid, cb, result>>
    /\ UNCHANGED svars

\* A pending login put in the table under the manager lock, laid out as
\* authenticate lays it out (future, expires_in, ..., created_at).
add_pending_login(s, e) ==
    /\ lock = NoThread
    /\ pending_logins' = [pending_logins EXCEPT ![s] =
           [future |-> "running", expires_in |-> e, created_at |-> now]]
    /\ UNCHANGED <<lock, sessions, callbacks, files, oauth_up, now,
                   pc, op, sid, cb, result>>
    /\ UNCHANGED svars

\* The OAuth flow of a pending login completes on its own thread: the future
\* holds a result and the session validates, or does not, or the future
\* holds an exception.
future_done(s, outcome) ==
    /\ pending_logins[s].future = "running"
    /\ pending_logins' = [pending_logins EXCEPT ![s].future = outcome]
    /\ UNCHANGED <<lock, sessions, callbacks, files, oauth_up, now,
                   pc, op, sid, cb, result>>
    /\ UNCHANGED svars

Tick ==
    /\ now < MaxTime
    /\ now' = now + 1
    /\ UNCHANGED <<lock, pending_logins, sessions, callbacks, files, oauth_up,
                   pc, op, sid, cb, result>>
    /\ UNCHANGED svars

Next ==
    \/ \E t \in Threads, s \in Ids \cup {NoneId}, c \in Urls \cup {NoUrl} :
           authenticate(t, s, c)
    \/ \E t \in Threads, s \in Ids : check_login_status(t, s)
    \/ \E t \in Threads, s \in Ids \cup {NoneId} :
           check_authentication_status(t, s)
    \/ \E t \in Threads, s \in Ids \cup {NoneId} :
           get_authenticated_session(t, s)
    \/ \E t \in Threads : acquire(t)
    \/ \E s \in Ids, e \in 1..MaxExpiresIn : add_pending_login(s, e)
    \/ \E s \in Ids, o \in FutureStates \ {"running"} : future_done(s, o)
    \/ Tick

Spec == Init /\ [][Next]_vars

\* A thread that can take the lock eventually takes it.
FairSpec == Spec /\ \A t \in Threads : WF_vars(acquire(t))

FailingFilesSpec ==
    /\ FailingFilesInit
    /\ [][Next]_vars
    /\ \A t \in Threads : WF_vars(acquire(t))

\* No thread gets past the "with self._lock:" of _is_session_valid: it is
\* only ever reached by a thread that already holds the lock.
InnerLockNeverEntered ==
    \A t \in Threads :
        /\ pc[t] # "L122"
        /\ pc[t] = InnerLockLine => lock = t

\* ---- SessionStorage: the store and its operations ----

\* The constructor without lines 56-58: the environment's key is not read.
ResolveKey_no_env(arg, i) ==
    IF arg # NoKey THEN arg ELSE GeneratedKey(i)

\* session_storage.py:52-62: the key argument, else the environment's key,
\* else a newly generated key.
ResolveKey(arg, i) ==
    IF arg # NoKey THEN arg
    ELSE IF env_key # NoKey THEN env_key
    ELSE GeneratedKey(i)

\* FernetEncryptionWrapper.put: the value is stored encrypted under the key.
Encrypt(k, v) == [key |-> k, plain |-> v]

\* FernetEncryptionWrapper.get on a session record: None when there is no
\* record, the value when the key decrypts it, an exception otherwise.
GetSession(k, s) ==
    IF store_sessions[s] = NoRecord THEN NoBundle
    ELSE IF store_sessions[s].key = k THEN store_sessions[s].plain
    ELSE DecryptionError

\* session_storage.py:121-134
LoadSession(k, s) ==
    IF GetSession(k, s) = DecryptionError THEN NoBundle ELSE GetSession(k, s)

\* session_storage.py:136-139
SessionExists(k, s) == LoadSession(k, s) # NoBundle

\* session_storage.py:89-101: no index record, or one the key does not
\* decrypt, gives the empty set.
LoadIndex(k) ==
    IF store_index = NoIndex THEN {}
    ELSE IF store_index.key = k THEN store_index.plain
    ELSE {}

\* session_storage.py:141-148
ListSessions(k) == LoadIndex(k)

KeyOf(t) == inst_key[call[t].inst]

\* session_storage.py:34-70: the constructor reads nothing and writes nothing.
open(i, arg) ==
    /\ inst_key[i] = ClosedKey
    /\ \A j \in 1..(i - 1) : inst_key[j] # ClosedKey
    /\ inst_key' = [inst_key EXCEPT ![i] = ResolveKey(arg, i)]
    /\ UNCHANGED <<env_key, store_lock, store_sessions, store_index, spc,
                   call, loaded, sret, last_save>>
    /\ UNCHANGED mvars

\* A thread calls a sync wrapper of instance i (session_storage.py:161-179)
\* and reaches "with self._lock:" of _run_async; what the wrapper was given
\* plays no part before the lock is held.  One instance is in use at a time:
\* a second instance on the directory stands for a restart.
SyncCall(t, i) ==
    /\ spc[t] = "idle"
    /\ inst_key[i] # ClosedKey
    /\ \A u \in Threads \ {t} : call[u] # NoCall => call[u].inst = i
    /\ spc' = [spc EXCEPT ![t] = "L74"]
    /\ call' = [call EXCEPT ![t] = [NoCall EXCEPT !.inst = i]]
    /\ UNCHANGED <<env_key, inst_key, store_lock, store_sessions,
                   store_index, loaded, sret, last_save>>
    /\ UNCHANGED mvars

\* The first line of the coroutine a wrapper runs.
FirstLine(name) ==
    CASE name = "save" -> "L114"
      [] name = "load" -> "L125"
      [] name = "exists" -> "L138"
      [] name = "list" -> "L147"
      [] name = "delete" -> "L153"

\* _run_async without "with self._lock:": the coroutine starts at once.
run_async_unlocked(t, name, s, b) ==
    /\ spc[t] = "L74"
    /\ store_lock' = [store_lock EXCEPT ![call[t].inst] = t]
    /\ call' = [call EXCEPT ![t] =
                   [op |-> name, inst |-> call[t].inst, id |-> s, bundle |-> b]]
    /\ spc' = [spc EXCEPT ![t] = FirstLine(name)]
    /\ sret' = NoReturn
    /\ UNCHANGED <<env_key, inst_key, store_sessions, store_index, loaded,
                   last_save>>
    /\ UNCHANGED mvars

\* session_storage.py:74: the thread gets the instance lock, which it holds
\* while the coroutine of its wrapper runs.
run_async(t, name, s, b) ==
    /\ spc[t] = "L74"
    /\ store_lock[call[t].inst] = NoThread
    /\ store_lock' = [store_lock EXCEPT ![call[t].inst] = t]
    /\ call' = [call EXCEPT ![t] =
                   [op |-> name, inst |-> call[t].inst, id |-> s, bundle |-> b]]
    /\ spc' = [spc EXCEPT ![t] = FirstLine(name)]
    /\ sret' = NoReturn
    /\ UNCHANGED <<env_key, inst_key, store_sessions, store_index, loaded,
                   last_save>>
    /\ UNCHANGED mvars

save_session_sync(t, s, b) == run_async(t, "save", s, b)
load_session_sync(t, s) == run_async(t, "load", s, NoBundle)
session_exists_sync(t, s) == run_async(t, "exists", s, NoBundle)
list_sessions_sync(t) == run_async(t, "list", NoneId, NoBundle)
delete_session_sync(t, s) == run_async(t, "delete", s, NoBundle)

\* The wrapper returns r: the lock is released at the end of the with block.
Return(t, r) ==
    /\ store_lock' = [store_lock EXCEPT ![call[t].inst] =
                         IF @ = t THEN NoThread ELSE @]
    /\ spc' = [spc EXCEPT ![t] = "idle"]
    /\ sret' = r
    /\ call' = [call EXCEPT ![t] = NoCall]
    /\ loaded' = [loaded EXCEPT ![t] = {}]

\* save_session with a put that keeps a record already there.
save_session_put_if_absent(t) ==
    /\ spc[t] = "L114"
    /\ store_sessions' = [store_sessions EXCEPT ![call[t].id] =
                             IF @ = NoRecord
                             THEN Encrypt(KeyOf(t), call[t].bundle)
                             ELSE @]
    /\ spc' = [spc EXCEPT ![t] = "L117"]
    /\ UNCHANGED <<env_key, inst_key, store_lock, store_index, call, loaded,
                   sret, last_save>>
    /\ UNCHANGED mvars

\* session_storage.py:113-114
save_session_put(t) ==
    /\ spc[t] = "L114"
    /\ store_sessions' = [store_sessions EXCEPT ![call[t].id] =
                             Encrypt(KeyOf(t), call[t].bundle)]
    /\ spc' = [spc EXCEPT ![t] = "L117"]
    /\ UNCHANGED <<env_key, inst_key, store_lock, store_index, call, loaded,
                   sret, last_save>>
    /\ UNCHANGED mvars

\* session_storage.py:117 and :156
load_index(t) ==
    /\ spc[t] \in {"L117", "L156"}
    /\ loaded' = [loaded EXCEPT ![t] = LoadIndex(KeyOf(t))]
    /\ spc' = [spc EXCEPT ![t] = IF spc[t] = "L117" THEN "L118" ELSE "L157"]
    /\ UNCHANGED <<env_key, inst_key, store_lock, store_sessions,
                   store_index, call, sret, last_save>>
    /\ UNCHANGED mvars

\* save_session without line 118: the id is not added to the index.
save_session_save_index_no_add(t) ==
    /\ spc[t] = "L118"
    /\ store_index' = Encrypt(KeyOf(t), loaded[t])
    /\ last_save' = [last_save EXCEPT ![call[t].id] =
                        [inst |-> call[t].inst, bundle |-> call[t].bundle]]
    /\ Return(t, NoReturn)
    /\ UNCHANGED <<env_key, inst_key, store_sessions>>
    /\ UNCHANGED mvars

\* session_storage.py:118-119, and the return of save_session_sync
save_session_save_index(t) ==
    /\ spc[t] = "L118"
    /\ store_index' = Encrypt(KeyOf(t), loaded[t] \cup {call[t].id})
    /\ last_save' = [last_save EXCEPT ![call[t].id] =
                        [inst |-> call[t].inst, bundle |-> call[t].bundle]]
    /\ Return(t, NoReturn)
    /\ UNCHANGED <<env_key, inst_key, store_sessions>>
    /\ UNCHANGED mvars

\* session_storage.py:121-134, and the return of load_session_sync
load_session(t) ==
    /\ spc[t] = "L125"
    /\ Return(t, [NoReturn EXCEPT
                     !.bundle = LoadSession(KeyOf(t), call[t].id)])
    /\ UNCHANGED <<env_key, inst_key, store_sessions, store_index, last_save>>
    /\ UNCHANGED mvars

\* session_storage.py:136-139, and the return of session_exists_sync
session_exists(t) ==
    /\ spc[t] = "L138"
    /\ Return(t, [NoReturn EXCEPT
                     !.exists = SessionExists(KeyOf(t), call[t].id)])
    /\ UNCHANGED <<env_key, inst_key, store_sessions, store_index, last_save>>
    /\ UNCHANGED mvars

\* session_storage.py:141-148, and the return of list_sessions_sync
list_sessions(t) ==
    /\ spc[t] = "L147"
    /\ Return(t, [NoReturn EXCEPT !.ids = ListSessions(KeyOf(t))])
    /\ UNCHANGED <<env_key, inst_key, store_sessions, store_index, last_save>>
    /\ UNCHANGED mvars

\* delete_session without line 153: the record stays.
delete_session_delete_no_delete(t) ==
    /\ spc[t] = "L153"
    /\ spc' = [spc EXCEPT ![t] = "L156"]
    /\ UNCHANGED <<env_key, inst_key, store_lock, store_sessions, store_index,
                   call, loaded, sret, last_save>>
    /\ UNCHANGED mvars

\* session_storage.py:152-153: deleting a record needs no key
delete_session_delete(t) ==
    /\ spc[t] = "L153"
    /\ store_sessions' = [store_sessions EXCEPT ![call[t].id] = NoRecord]
    /\ spc' = [spc EXCEPT ![t] = "L156"]
    /\ UNCHANGED <<env_key, inst_key, store_lock, store_index, call, loaded,
                   sret, last_save>>
    /\ UNCHANGED mvars

\* session_storage.py:157-158, and the return of delete_session_sync
delete_session_save_index(t) ==
    /\ spc[t] = "L157"
    /\ store_index' = Encrypt(KeyOf(t), loaded[t] \ {call[t].id})
    /\ last_save' = [last_save EXCEPT ![call[t].id] =
                        [inst |-> call[t].inst, bundle |-> NoBundle]]
    /\ Return(t, NoReturn)
    /\ UNCHANGED <<env_key, inst_key, store_sessions>>
    /\ UNCHANGED mvars

StoreNext ==
    \/ \E i \in Instances, a \in ArgKeys \cup {NoKey} : open(i, a)
    \/ \E t \in Threads, i \in Instances : SyncCall(t, i)
    \/ \E t \in Threads, s \in Ids, b \in Bundles : save_session_sync(t, s, b)
    \/ \E t \in Threads, s \in Ids : load_session_sync(t, s)
    \/ \E t \in Threads, s \in Ids : session_exists_sync(t, s)
    \/ \E t \in Threads : list_sessions_sync(t)
    \/ \E t \in Threads, s \in Ids : delete_session_sync(t, s)
    \/ \E t \in Threads : save_session_put(t)
    \/ \E t \in Threads : load_index(t)
    \/ \E t \in Threads : save_session_save_index(t)
    \/ \E t \in Threads : load_session(t)
    \/ \E t \in Threads : session_exists(t)
    \/ \E t \in Threads : list_sessions(t)
    \/ \E t \in Threads : delete_session_delete(t)
    \/ \E t \in Threads : delete_session_save_index(t)

\* The manager as constructed, with no session files; it is not called.
ManagerIdle ==
    /\ lock = NoThread
    /\ pending_logins = [s \in AllIds |-> NoEntry]
    /\ sessions = [s \in AllIds |-> NoSession]
    /\ callbacks = [s \in AllIds |-> NoUrl]
    /\ files = [s \in AllIds |-> "absent"]
    /\ oauth_up = TRUE
    /\ now = 0
    /\ pc = [t \in Threads |-> "idle"]
    /\ op = [t \in Threads |-> "none"]
    /\ sid = [t \in Threads |-> NoneId]
    /\ cb = [t \in Threads |-> NoUrl]
    /\ result = [t \in Threads |-> NoResult]

\* The store with TIDAL_STORAGE_ENCRYPTION_KEY set: every instance has the
\* same key.
EnvKeyInit == ManagerIdle /\ StoreInit("k1")
StoreSpec == EnvKeyInit /\ [][StoreNext]_vars

\* The store with no key configured: an instance constructed without a key
\* generates its own.
NoEnvKeyInit == ManagerIdle /\ StoreInit(NoKey)
KeySpec == NoEnvKeyInit /\ [][StoreNext]_vars

\* No wrapper is inside its coroutine.
StoreQuiet == \A i \in Instances : store_lock[i] = NoThread

\* ---- what the claims speak of ----
InCall(t, name, s) == pc[t] # "idle" /\ op[t] = name /\ sid[t] = s
Pending(s) == pending_logins[s] # NoEntry
\* session_manager.py:314-315
Expired(s) ==
    /\ Pending(s)
    /\ now - pending_logins[s].created_at > pending_logins[s].expires_in
Unexpired(s) == Pending(s) /\ ~Expired(s)
Polling(t, s) == InCall(t, "check_login_status", s)

\* C2: every call to a SessionManager entry point eventually returns, for
\* any number of threads calling concurrently: no call waits forever on the
\* manager lock.
C2_EveryCallReturns ==
    \A t \in Threads : (pc[t] # "idle") ~> (pc[t] = "idle")

\* C1: two threads poll check_login_status(s) concurrently while the pending
\* login of s has a resolved handle: exactly one of them performs the
\* promotion (the bundle is persisted, the entry removed, its answer
\* "Authentication completed"), the other answers from the stored bundle
\* ("Valid TIDAL session").
C1_ExactlyOnePromotes ==
    \A s \in Ids : \A t1 \in Threads : \A t2 \in Threads \ {t1} :
        (/\ Polling(t1, s) /\ Polling(t2, s)
         /\ Unexpired(s) /\ pending_logins[s].future = "valid")
        ~> \/ /\ ~Pending(s)
              /\ files[s] = "valid"
              /\ {result[t1].message, result[t2].message} =
                     {"Authentication completed", "Valid TIDAL session"}
           \/ Expired(s)

\* C3: authenticate, when it starts a fresh login, returns its pending
\* result without waiting for the OAuth flow, also when the completion
\* handle never resolves.
C3_AuthenticateDoesNotWait ==
    \A t \in Threads : \A s \in AllIds :
        (InCall(t, "authenticate", s) /\ files[s] # "valid" /\ oauth_up)
        ~> (result[t].status = "pending")

\* C4: a pending login whose creation time plus expires_in has passed is
\* reported as expired (status error, authenticated false) by the next
\* check_login_status and removed from the table, whatever the state of its
\* completion handle.
C4_ExpiredIsReported ==
    \A t \in Threads : \A s \in Ids :
        (Polling(t, s) /\ Expired(s))
        ~> (/\ result[t].status = "error"
            /\ ~result[t].authenticated
            /\ ~Pending(s))

\* C5: with no prior state for s, authenticate(s) returns status pending
\* with a non-empty auth_url, session_id s and expires_in; once the flow has
\* completed, check_login_status(s) returns success with authenticated true
\* and the user; after that get_authenticated_session(s) returns a session.
C5_ScenarioA ==
    \A t \in Threads : \A s \in Ids :
        /\ (/\ InCall(t, "authenticate", s)
            /\ files[s] = "absent" /\ ~Pending(s) /\ oauth_up)
           ~> (/\ result[t].status = "pending"
               /\ result[t].auth_url # ""
               /\ result[t].session_id = s
               /\ result[t].expires_in > 0)
        /\ (/\ Polling(t, s)
            /\ Unexpired(s) /\ pending_logins[s].future = "valid")
           ~> \/ /\ result[t].status = "success"
                 /\ result[t].authenticated
                 /\ result[t].user # "none"
              \/ Expired(s)
        /\ (InCall(t, "get_authenticated_session", s) /\ files[s] = "valid")
           ~> (result[t].status = "session")

\* C6: when a persisted bundle for the id exists and validates,
\* authenticate(id) returns status success with that session_id and user id,
\* and registers no pending login for the id.
C6_AlreadyAuthenticated ==
    \A t \in Threads : \A s \in Ids :
        (InCall(t, "authenticate", s) /\ files[s] = "valid" /\ ~Pending(s))
        ~> (/\ result[t].status = "success"
            /\ result[t].session_id = s
            /\ result[t].user # "none"
            /\ ~Pending(s))

\* C7: when start_oauth_login raises, authenticate returns status error
\* with a message, and registers no pending login and no callback binding.
C7_OAuthStartFailure ==
    \A t \in Threads : \A s \in AllIds :
        (/\ InCall(t, "authenticate", s)
         /\ files[s] # "valid" /\ ~oauth_up /\ ~Pending(s))
        ~> (/\ result[t].status = "error"
            /\ result[t].message # ""
            /\ ~Pending(s)
            /\ callbacks[s] = NoUrl)

\* C8: check_login_status(id) on a pending login whose handle resolved
\* successfully and whose session validates: by the time it returns success
\* the bundle is persisted and the pending entry removed.
C8_SuccessIsPersisted ==
    \A t \in Threads : \A s \in Ids :
        (Polling(t, s) /\ Unexpired(s) /\ pending_logins[s].future = "valid")
        ~> \/ /\ result[t].status = "success"
              /\ files[s] = "valid"
              /\ ~Pending(s)
           \/ Expired(s)

\* C9: check_login_status(id) on a pending login whose handle resolved with
\* failure (it raised, or the session does not validate) removes the entry
\* and returns status error, authenticated false, with a message; nothing is
\* persisted and nothing cached for id.
C9_FailureIsReported ==
    \A t \in Threads : \A s \in Ids : \A f \in {"absent", "valid"} :
        (/\ Polling(t, s) /\ Unexpired(s)
         /\ pending_logins[s].future \in {"invalid", "raised"}
         /\ files[s] = f)
        ~> \/ /\ result[t].status = "error"
              /\ ~result[t].authenticated
              /\ result[t].message # ""
              /\ ~Pending(s)
              /\ files[s] = f
              /\ sessions[s] = NoSession
           \/ Expired(s)

\* C10: check_login_status(id) on a pending login whose handle is unresolved
\* and whose expiry has not passed returns status pending with the remaining
\* seconds, and leaves the pending entry, the cache and the store as they
\* were.
C10_StillPending ==
    \A t \in Threads : \A s \in Ids : \A f \in {"absent", "valid"} :
      \A c \in 0..MaxTime :
        (/\ Polling(t, s) /\ Unexpired(s)
         /\ pending_logins[s].future = "running"
         /\ pending_logins[s].created_at = c
         /\ files[s] = f)
        ~> \/ /\ result[t].status = "pending"
              /\ result[t].expires_in =
                     pending_logins[s].expires_in - (now - c)
              /\ pending_logins[s].future = "running"
              /\ pending_logins[s].created_at = c
              /\ files[s] = f
              /\ sessions[s] = NoSession
           \/ Expired(s)
           \/ pending_logins[s].future # "running"

\* The messages of the manager's results that contain "No session"
\* (session_manager.py:465; the message of line 434 is
\* "No active session found").
NoSessionMessages == {"No session file found"}

\* C11: for an id with no pending login, no cached session and no persisted
\* bundle, check_login_status(id) and check_authentication_status(id) return
\* status not_authenticated, authenticated false and a message containing
\* "No session".
C11_UnknownIdNotAuthenticated ==
    \A t \in Threads : \A s \in Ids :
        (/\ Polling(t, s)
         /\ ~Pending(s) /\ sessions[s] = NoSession /\ files[s] = "absent")
        ~> \/ /\ result[t].status = "not_authenticated"
              /\ ~result[t].authenticated
              /\ result[t].message \in NoSessionMessages
           \/ Pending(s)

\* C12: a login started with a callback_url has a callback binding, and
\* every check_login_status response for an id that has a binding carries
\* callback_url equal to the URL given to authenticate.
C12_CallbackEchoed ==
    \A t \in Threads : \A s \in Ids : \A u \in Urls :
        /\ (/\ InCall(t, "authenticate", s) /\ cb[t] = u
            /\ files[s] = "absent" /\ oauth_up)
           ~> (result[t].status = "pending" /\ callbacks[s] = u)
        /\ (Polling(t, s) /\ callbacks[s] = u)
           ~> (result[t].status # "none" /\ result[t].callback_url = u)

\* C13: get_authenticated_session returns a session when a stored bundle for
\* the id exists and validates live; with no session id given, no stored
\* bundle, or a bundle that does not validate, it fails with the
\* unauthenticated error.
C13_SessionOrUnauthenticated ==
    \A t \in Threads : \A s \in Ids \cup {DefaultId} :
        /\ (InCall(t, "get_authenticated_session", s) /\ files[s] = "valid")
           ~> (result[t].status = "session")
        /\ (InCall(t, "get_authenticated_session", s) /\ files[s] # "valid")
           ~> (result[t].status = "unauthenticated")

\* C14: check_authentication_status without a session id, when no default
\* session is configured, returns authenticated false with an explanatory
\* message; with a session id it returns what check_login_status returns.
C14_StatusWithoutId ==
    \A t \in Threads :
        (/\ InCall(t, "check_authentication_status", DefaultId)
         /\ files[DefaultId] = "absent")
        ~> (/\ result[t].status # "none"
            /\ ~result[t].authenticated
            /\ result[t].message # "")

\* ---- what the claims about the store speak of ----

\* No save or delete is between its first write and its return.
NoWriteInProgress ==
    \A t \in Threads : spc[t] \notin {"L117", "L118", "L156", "L157"}

\* C15: save(id, B) followed by load(id) on the same store returns B, also
\* when an earlier bundle was saved under id (the latest save wins) and
\* across repeated save/load cycles: every load returns the bundle of the
\* last save of the id, and nothing after its delete.
C15_LoadReturnsLatestSave ==
    [][\A t \in Threads :
          (load_session(t) /\ last_save[call[t].id].inst = call[t].inst)
          => sret'.bundle = last_save[call[t].id].bundle]_vars

\* A load by the only open instance has returned the bundle it saved.
C15_Witness ==
    /\ StoreQuiet
    /\ inst_key[2] = ClosedKey
    /\ last_save["s2"] = NoSave
    /\ \E b \in Bundles :
           /\ last_save["s1"] = [inst |-> 1, bundle |-> b]
           /\ sret.bundle = b

\* C16: after any sequence of save and delete calls, list_sessions returns
\* exactly the ids for which session_exists is true: whenever no save or
\* delete is under way, every open instance would list the ids that exist
\* for it and no others.
C16_IndexConsistent ==
    NoWriteInProgress =>
        \A i \in Instances :
            inst_key[i] # ClosedKey =>
                ListSessions(inst_key[i]) =
                    {s \in Ids : SessionExists(inst_key[i], s)}

\* list_sessions has returned one id after the other id was saved and
\* deleted.
C16_Witness ==
    /\ StoreQuiet
    /\ sret.ids = {"s1"}
    /\ last_save["s1"].bundle # NoBundle
    /\ last_save["s2"] # NoSave
    /\ last_save["s2"].bundle = NoBundle
    /\ store_index.plain = {"s1"}

\* The id was never saved, or its delete returned last.
Absent(s) == last_save[s].bundle = NoBundle

\* C17: after delete(id), exists(id) is false, load(id) reports absent and
\* the list does not contain id, for every open instance; and a delete of an
\* id that was never saved or is already deleted succeeds and changes no
\* record and no instance's list.
C17_DeleteIsTerminal ==
    [][\A t \in Threads : \A s \in Ids :
          /\ (delete_session_save_index(t) /\ call[t].id = s) =>
                 \A i \in Instances :
                     inst_key[i] # ClosedKey =>
                         /\ ~SessionExists(inst_key[i], s)'
                         /\ LoadSession(inst_key[i], s)' = NoBundle
                         /\ s \notin ListSessions(inst_key[i])'
          /\ (/\ delete_session_delete(t) \/ delete_session_save_index(t)
              /\ call[t].id = s
              /\ Absent(s)) =>
                 /\ store_sessions' = store_sessions
                 /\ \A i \in Instances :
                        inst_key[i] # ClosedKey =>
                            ListSessions(inst_key[i])' =
                                ListSessions(inst_key[i])]_vars

\* A delete of a saved id is about to return while the other id, deleted
\* before, stays deleted.
C17_Witness ==
    /\ \E t \in Threads :
           /\ spc[t] = "L157"
           /\ call[t].id = "s1"
           /\ "s1" \in loaded[t]
    /\ last_save["s1"].bundle # NoBundle
    /\ last_save["s2"] # NoSave
    /\ Absent("s2")
    /\ store_sessions = [s \in Ids |-> NoRecord]

\* C18: sessions saved by one store instance are listable and loadable,
\* with the same bundle, by another instance opened on the same directory
\* with the same encryption key: a load by an instance other than the one
\* that saved the id last returns that bundle, and its list contains the id.
C18_OtherInstanceReads ==
    [][\A t \in Threads : \A s \in Ids :
          (/\ last_save[s].bundle # NoBundle
           /\ last_save[s].inst # call[t].inst) =>
              /\ (load_session(t) /\ call[t].id = s) =>
                     sret'.bundle = last_save[s].bundle
              /\ list_sessions(t) => s \in sret'.ids]_vars

\* Instance 1 saved s1; instance 2 is in load_session("s1") and the store
\* gives it the bundle and, in the index, the id.
C18_Witness ==
    \E t \in Threads : \E b \in Bundles :
        /\ last_save["s1"] = [inst |-> 1, bundle |-> b]
        /\ spc[t] = "L125"
        /\ call[t].inst = 2
        /\ call[t].id = "s1"
        /\ LoadSession(KeyOf(t), "s1") = b
        /\ "s1" \in ListSessions(KeyOf(t))

\* The record of s is loadable and listable with the key of the instance
\* that saved it last.
Readable(s) ==
    /\ last_save[s].bundle # NoBundle
    /\ LoadSession(inst_key[last_save[s].inst], s) = last_save[s].bundle
    /\ s \in ListSessions(inst_key[last_save[s].inst])

\* C19: an instance opened with another key than the one used to save
\* reports the prior records as absent (load returns None, no exception),
\* and its load, exists, list and save-of-another-id calls leave every prior
\* record loadable and listable by an instance with the original key.
C19_OtherKeyLeavesRecords ==
    [][\A t \in Threads : \A s \in Ids :
          (/\ last_save[s].bundle # NoBundle
           /\ call[t].inst # NoInstance
           /\ KeyOf(t) # inst_key[last_save[s].inst]) =>
              /\ (load_session(t) /\ call[t].id = s) =>
                     sret'.bundle = NoBundle
              /\ (/\ Readable(s)
                  /\ call[t].id # s
                  /\ \/ load_session(t)
                     \/ session_exists(t)
                     \/ list_sessions(t)
                     \/ save_session_put(t)
                     \/ load_index(t)
                     \/ save_session_save_index(t)) =>
                     Readable(s)']_vars

\* The thread is inside the coroutine of its wrapper.
Inside(t) == spc[t] \notin {"idle", "L74"}

\* C20: sync calls made concurrently from several threads on one instance
\* never interleave: at most one thread is inside a coroutine of the
\* instance and it holds the instance lock; and when none is inside, every
\* id whose save returned last is loadable with the bundle of that save
\* (one of the saved bundles, whole) and is in the list (no index update is
\* lost).
C20_CallsDoNotInterleave ==
    /\ \A t \in Threads :
           Inside(t) =>
               /\ store_lock[call[t].inst] = t
               /\ \A u \in Threads \ {t} : ~Inside(u)
    /\ StoreQuiet =>
           \A s \in Ids :
               ~Absent(s) =>
                   \A i \in Instances :
                       inst_key[i] # ClosedKey =>
                           /\ LoadSession(inst_key[i], s) = last_save[s].bundle
                           /\ s \in ListSessions(inst_key[i])

\* One thread is adding s2 to the index, which holds s1, while the other
\* thread waits for the lock of the same instance.
C20_Witness ==
    /\ spc[1] = "L118"
    /\ call[1].id = "s2"
    /\ loaded[1] = {"s1"}
    /\ spc[2] = "L74"
    /\ call[2].inst = call[1].inst
    /\ ~Absent("s1")

\* ---- what the claims about the cache and the tables speak of ----

\* session_manager.py:122
Cached(s) == sessions[s] # NoSession
\* session_manager.py:128
CacheExpired(s) == Cached(s) /\ now > sessions[s].expires_at
\* The thread is in a call of any entry point for the id.
Access(t, s) == pc[t] # "idle" /\ sid[t] = s

FailedOrExpired(s) ==
    \/ Expired(s)
    \/ Pending(s) /\ pending_logins[s].future \in {"invalid", "raised"}

\* C23: once a login for an id has failed or expired, a status check
\* starts no OAuth flow for the id: it reports the error and leaves the id
\* with no pending entry; and the next authenticate(id) starts a new flow
\* and registers a new, running pending login.
C23_NoRetryUntilAuthenticate ==
    \A t \in Threads : \A s \in Ids :
        /\ (Polling(t, s) /\ FailedOrExpired(s))
           ~> (result[t].status = "error" /\ ~Pending(s))
        /\ (/\ InCall(t, "authenticate", s)
            /\ FailedOrExpired(s)
            /\ files[s] = "absent" /\ oauth_up)
           ~> (/\ result[t].status = "pending"
               /\ pending_logins[s].future = "running")

\* C24: when the stored bundle of an id no longer validates, the next
\* check_login_status or get_authenticated_session for the id reports it as
\* not authenticated and leaves the persisted record as it was.
C24_StaleRecordKept ==
    \A t \in Threads : \A s \in Ids :
        /\ (Polling(t, s) /\ ~Pending(s) /\ files[s] = "invalid")
           ~> (/\ result[t].status = "not_authenticated"
               /\ ~result[t].authenticated
               /\ files[s] = "invalid")
        /\ (InCall(t, "get_authenticated_session", s) /\ files[s] = "invalid")
           ~> (result[t].status = "unauthenticated" /\ files[s] = "invalid")

\* C25: if reading the persisted credential fails (the storage is
\* unavailable) during authenticate, check_login_status or
\* check_authentication_status, the call does not raise: it returns a
\* structured result (an error, not authenticated, or a login now pending).
C25_StorageFailureIsAnswered ==
    \A t \in Threads : \A s \in Ids :
        (/\ Access(t, s)
         /\ op[t] \in {"authenticate", "check_login_status"}
         /\ files[s] = "unreadable")
        ~> (result[t].status \in {"error", "not_authenticated", "pending"})

\* The id has no file and no pending login, and an OAuth flow can start.
Fresh(s) == files[s] = "absent" /\ ~Pending(s) /\ oauth_up

\* C26: concurrent authenticate calls for distinct fresh ids leave one
\* pending entry for each id (no insertion is lost); concurrent
\* authenticate calls for the same fresh id leave one pending entry for it,
\* and each call returns its pending result.
C26_ConcurrentAuthenticate ==
    \A t1 \in Threads : \A t2 \in Threads \ {t1} :
        \A s1 \in Ids : \A s2 \in Ids :
            (/\ InCall(t1, "authenticate", s1) /\ Fresh(s1)
             /\ InCall(t2, "authenticate", s2) /\ Fresh(s2))
            ~> (/\ Pending(s1) /\ Pending(s2)
                /\ result[t1].status = "pending"
                /\ result[t2].status = "pending")

\* The pending login of s has resolved: the flow is done, or time ran out.
Resolved(s) ==
    \/ Expired(s)
    \/ Pending(s) /\ pending_logins[s].future # "running"

\* C27: when a login that has a callback binding resolves, by success,
\* failure or expiry, the binding is consumed in the resolution: authenticate
\* with a callback_url registers the binding with the pending login, and
\* when check_login_status has returned the resolving result neither the
\* pending entry nor the binding of the id is left.
C27_BindingConsumed ==
    \A t \in Threads : \A s \in Ids :
        /\ (InCall(t, "authenticate", s) /\ cb[t] # NoUrl /\ Fresh(s))
           ~> (Pending(s) /\ callbacks[s] # NoUrl)
        /\ (Polling(t, s) /\ Resolved(s))
           ~> (/\ result[t].status \in {"success", "error"}
               /\ ~Pending(s)
               /\ callbacks[s] = NoUrl)

\* C29: whenever a pending login of an id is in the table, the callback
\* binding of the id is the callback_url given to the authenticate call
\* that created the pending login, and absent if that call gave none, also
\* after repeated or concurrent authenticate calls: every authenticate call
\* that starts a flow leaves the id with a pending login and with the
\* binding it was given.
C29_BindingOfCreatingCall ==
    \A t \in Threads : \A s \in Ids : \A c \in Urls \cup {NoUrl} :
        (/\ InCall(t, "authenticate", s) /\ cb[t] = c
         /\ files[s] = "absent" /\ oauth_up)
        ~> (/\ result[t].status = "pending"
            /\ result[t].callback_url = c
            /\ Pending(s)
            /\ callbacks[s] = c)

====
